---- MODULE Spec2Model ----
(***************************************************************************)
(* Journal RAG server: the incremental indexer (update_journal_index and   *)
(* the rag_search helpers it calls), the two query handlers                *)
(* (perform_rag_query, perform_enhanced_rag_query) over one vector store,  *)
(* and the request loops of the journal and frontmatter servers.           *)
(*                                                                         *)
(* The journal directory, the wall clock, the watermark file and the       *)
(* vector store are the state.  The embedding model and the vector store   *)
(* are external: their failures are inputs of the steps that call them,    *)
(* and the ranking a similarity query returns is an input of the query.    *)
(***************************************************************************)
EXTENDS Integers, Sequences, FiniteSets, TLC

VARIABLES
    fs,       \* the journal directory: file name -> file state
    now,      \* the wall clock (time.time(), also the source of mtimes)
    wmFile,   \* last_indexed_time.txt: missing, unparseable, or holding a time
    store,    \* the ChromaDB collection: a set of records
    tagger,   \* which chunker filled chunk_type: "src" (split_docs) or "tagging"
    pc,       \* position of the running update_journal_index call
    run,      \* locals and outcome of the current / most recent index run
    writes,   \* how many times the editor has written a journal file
    lastQ,    \* the response being sent, if any
    proc,     \* the server process: which program it runs and its status
    meta      \* a chunk's metadata mapping on its way through index_chunks

vars == <<fs, now, wmFile, store, tagger, pc, run, writes, lastQ, proc, meta>>

-----------------------------------------------------------------------------
(* Bounds of the model *)

MaxTime == 2
MaxWrites == 2
MaxK == 2
MaxDay == 3

(* Program constants *)

CHUNK_SIZE == 500
CHUNK_OVERLAP == 50

-----------------------------------------------------------------------------
(* The journal directory *)

MdFiles == {"a.md", "b.md"}
OtherFiles == {"n.txt"}
Files == MdFiles \cup OtherFiles

\* filename.endswith(".md")
IsMarkdown(f) == f \in MdFiles

NoFm == "none"

\* Body lengths (characters) a file may be written with: 0, 1 and 4 chunks.
BodyLens(f) == IF f = "a.md" THEN {400, 1800} ELSE {0, 400}

\* A `source` key some file's frontmatter may carry.
FmSources(f) == IF f = "b.md" THEN {NoFm, "a.md"} ELSE {NoFm}

Absent == [present |-> FALSE, mtime |-> 0, len |-> 0, ok |-> TRUE, fm |-> NoFm]

\* What a write at time t can leave: a parseable file, or one whose parse
\* raises (its body and frontmatter are then never seen).
FileStates(f, t) ==
    {[present |-> TRUE, mtime |-> t, len |-> l, ok |-> TRUE, fm |-> s] :
        l \in BodyLens(f), s \in FmSources(f)}
    \cup {[present |-> TRUE, mtime |-> t, len |-> 0, ok |-> FALSE, fm |-> NoFm]}

-----------------------------------------------------------------------------
(* Watermark file *)

WmMissing == [st |-> "missing", t |-> 0]
WmGarbage == [st |-> "garbage", t |-> 0]
WmTime(t) == [st |-> "time", t |-> t]

\* get_last_indexed_time: 0 when the file is missing or float() raises.
get_last_indexed_time(w) == IF w.st = "time" THEN w.t ELSE 0

\* update_last_indexed_time: what the file holds afterwards.  The function
\* catches its own exceptions; `how` is where (if anywhere) it raised: before
\* open(.., 'w') the file is as it was, after it the file is truncated.
update_last_indexed_time(w, t, how) ==
    CASE how = "ok" -> WmTime(t)
      [] how = "raise_before_open" -> w
      [] how = "raise_after_open" -> WmGarbage

WriteOutcomes == {"ok", "raise_before_open", "raise_after_open"}

-----------------------------------------------------------------------------
(* Loading *)

\* The files os.walk yields that pass the .md filter.
WalkMd(dir) == {f \in Files : dir[f].present /\ IsMarkdown(f)}

\* frontmatter.load + the `source` default: the document of a file.
Post(dir, f) ==
    [file |-> f,
     source |-> IF dir[f].fm = NoFm THEN f ELSE dir[f].fm,
     born |-> dir[f].mtime,
     len |-> dir[f].len]

\* The mtime test with >= in place of >.
SelectedSinceInclusive(dir, timestamp) ==
    {f \in WalkMd(dir) : dir[f].mtime >= timestamp}

\* Files whose load is attempted by load_markdown_docs_since.
SelectedSince(dir, timestamp) == {f \in WalkMd(dir) : dir[f].mtime > timestamp}

\* Files whose load is attempted by load_markdown_docs.
SelectedAll(dir) == WalkMd(dir)

\* The try around the whole walk instead of around one load: the first parse
\* that raises ends the loading.
LoadedDocsAbort(dir, sel) ==
    IF \E g \in sel : ~dir[g].ok THEN {} ELSE {Post(dir, f) : f \in sel}

\* The documents list: a file whose parse raises is logged and skipped.
LoadedDocs(dir, sel) == {Post(dir, f) : f \in {g \in sel : dir[g].ok}}

-----------------------------------------------------------------------------
(* Chunking *)

\* RecursiveCharacterTextSplitter(chunk_size, chunk_overlap).split_text on a
\* body of n characters: the number of windows.
NumChunks(n) ==
    IF n = 0 THEN 0
    ELSE IF n <= CHUNK_SIZE THEN 1
    ELSE 1 + ((n - CHUNK_SIZE) + (CHUNK_SIZE - CHUNK_OVERLAP) - 1)
                 \div (CHUNK_SIZE - CHUNK_OVERLAP)

Min(x, y) == IF x <= y THEN x ELSE y

\* Window i (from 0): characters [lo, hi).
Window(n, i) ==
    [lo |-> i * (CHUNK_SIZE - CHUNK_OVERLAP),
     hi |-> Min(n, i * (CHUNK_SIZE - CHUNK_OVERLAP) + CHUNK_SIZE)]

\* chunk_id = f"{source}_{i}".  i is a decimal integer, so the string splits
\* at its last underscore into exactly one (source, i): the pair is the id.
ChunkId(source, i) == <<source, i>>

\* chunk_type as the chunker of section 4.1 tags a document of n characters.
ChunkTypeTag(n) == IF NumChunks(n) = 1 THEN "full_entry" ELSE "partial_entry"

\* split_docs itself sets no chunk_type; a collection filled by the tagging
\* chunker (tg = "tagging") carries the tag.
ChunkType(tg, n) == IF tg = "src" THEN "none" ELSE ChunkTypeTag(n)

DocChunks(tg, doc) ==
    {[id |-> ChunkId(doc.source, i),
      text |-> [file |-> doc.file, born |-> doc.born,
                lo |-> Window(doc.len, i).lo, hi |-> Window(doc.len, i).hi],
      source |-> doc.source,
      chunk_index |-> i,
      chunk_type |-> ChunkType(tg, doc.len)] : i \in 0..(NumChunks(doc.len) - 1)}

split_docs(tg, docs) == UNION {DocChunks(tg, d) : d \in docs}

-----------------------------------------------------------------------------
(* The vector store *)

\* collection.add semantics kept beside the old record.
UpsertAppend(st, batch) == st \cup batch

\* collection.upsert(ids, ...): a record with a given id replaces the one held.
Upsert(st, batch) ==
    {r \in st : ~(\E c \in batch : c.id = r.id)} \cup batch

\* ChromaDB validates a batch before writing: repeated ids raise.
DuplicateIds(batch) == \E c, d \in batch : c # d /\ c.id = d.id

\* collection.get(where = source == s and chunk_type == t)
Get(st, s, t) == {r \in st : r.source = s /\ r.chunk_type = t}

\* Metadata values as frontmatter.load yields them: a Python type and the
\* text str() gives for the value.
MetaValues ==
    {[t |-> "str", v |-> "happy"], [t |-> "int", v |-> "3"],
     [t |-> "float", v |-> "1.5"], [t |-> "bool", v |-> "True"],
     [t |-> "date", v |-> "2024-01-05"], [t |-> "list", v |-> "['a', 'b']"],
     [t |-> "dict", v |-> "{'k': 1}"], [t |-> "null", v |-> "None"]}

MetaKeys == {"date", "mood"}

\* isinstance(value, (str, int, float, bool))
IsScalar(value) == value.t \in {"str", "int", "float", "bool"}

\* str(value)
Str(value) == [t |-> "str", v |-> value.v]

\* Every value copied as it is.
ProcessedValueNoCoerce(value) == value

\* Lines 158-161: what is stored under a key of processed_metadata.
ProcessedValue(value) == IF IsScalar(value) THEN value ELSE Str(value)

\* Lines 153-162: processed_metadata of one chunk.
processed_metadata(md) == [key \in DOMAIN md |-> ProcessedValue(md[key])]

NoMeta == [stage |-> "none"]

\* index_chunks up to the upsert call, for one chunk's metadata.
ProcessMetadata ==
    /\ meta.stage = "chunk"
    /\ meta' = [stage |-> "upsert", md |-> meta.md,
                sent |-> processed_metadata(meta.md)]
    /\ UNCHANGED <<fs, now, wmFile, store, tagger, pc, run, writes, lastQ, proc>>

\* index_chunks: False without touching the store when there is nothing to
\* index or when encode / upsert raises; True after the batch upsert.
index_chunks(st, chunks, how) ==
    IF chunks = {} THEN [ok |-> FALSE, store |-> st, cause |-> "empty"]
    ELSE IF how = "encode_raise" THEN [ok |-> FALSE, store |-> st, cause |-> how]
    ELSE IF how = "upsert_raise" THEN [ok |-> FALSE, store |-> st, cause |-> how]
    ELSE IF DuplicateIds(chunks)
         THEN [ok |-> FALSE, store |-> st, cause |-> "duplicate_ids"]
    ELSE [ok |-> TRUE, store |-> Upsert(st, chunks), cause |-> "none"]

-----------------------------------------------------------------------------
(* update_journal_index *)

Outcomes ==
    {"none", "running", "ok_nofiles", "ok_nochunks", "ok_indexed",
     "fail_exception", "fail_init", "fail_index"}

Success(o) == o \in {"ok_nofiles", "ok_nochunks", "ok_indexed"}
Failure(o) == o \in {"fail_exception", "fail_init", "fail_index"}
Returned(o) == Success(o) \/ Failure(o)

\* The function without its `if not chunks` return.
EarlyReturnNoChunkCheck(full, docs, chunks) ==
    IF ~full /\ docs = {} THEN "ok_nofiles" ELSE "running"

\* What the function returns before initializing anything, or "running".
EarlyReturn(full, docs, chunks) ==
    IF ~full /\ docs = {} THEN "ok_nofiles"
    ELSE IF chunks = {} THEN "ok_nochunks"
    ELSE "running"

\* update_last_indexed_time() called whatever index_chunks returned.
WritesWatermarkAlways(indexing_successful) == TRUE

\* update_last_indexed_time() never called.
WritesWatermarkNever(indexing_successful) == FALSE

\* `if indexing_successful: update_last_indexed_time()`
WritesWatermark(indexing_successful) == indexing_successful

\* The locals of a run, and what the properties need to remember of it:
\*   untouched      files selected by the last run that selected any, not
\*                  written since (fromFull: that run was a full one)
\*   retryDue       at load: the untouched files of the failed run before
\*   rerun          at load: the run before returned after its upsert and
\*                  loaded each of this run's documents, unchanged
\*   wmWrite        how update_last_indexed_time ended, once called
\*   inits          how many embedding models (and store clients) the run
\*                  has constructed
\*   modified       files the run loaded that were written after the load
\*                  and before the run returned, not written since
\*   modifiedDue    at load: the modified files of the run before, if that
\*                  run indexed
NoRun ==
    [outcome |-> "none", full |-> FALSE, wmStart |-> WmMissing,
     selected |-> {}, untouched |-> {}, fromFull |-> FALSE, docs |-> {},
     upserted |-> FALSE, cause |-> "none", wmWrite |-> "none",
     retryDue |-> {}, retryFromFull |-> FALSE, rerun |-> FALSE, inits |-> 0,
     modified |-> {}, modifiedDue |-> {}]

NoQuery == [server |-> "none"]

\* The update_index handler's response to what update_journal_index returned:
\* a result when success is true, else error -32000 (0 stands for a result).
IndexResponse(server, o) ==
    [server |-> server, kind |-> "update_index", err |-> "not_query",
     code |-> IF Success(o) THEN 0 ELSE -32000, id |-> "request"]

\* Lines 193-240: import, select, load, split, and the two early returns.
IndexLoad(full, exc) ==
    /\ pc = "idle"
    /\ lastQ = NoQuery
    /\ proc.status = "serving"
    /\ proc.server \in {"plain", "enhanced"}
    /\ LET wm == get_last_indexed_time(wmFile)
           sel == IF exc THEN {}
                  ELSE IF full THEN SelectedAll(fs) ELSE SelectedSince(fs, wm)
           docs == LoadedDocs(fs, sel)
           chunks == split_docs(tagger, docs)
           o == IF exc THEN "fail_exception" ELSE EarlyReturn(full, docs, chunks)
           due == IF Failure(run.outcome) THEN run.untouched ELSE {}
           dueFull == Failure(run.outcome) /\ run.fromFull
       IN /\ run' = [outcome |-> o, full |-> full, wmStart |-> wmFile,
                     selected |-> sel,
                     untouched |-> IF exc THEN due ELSE sel,
                     fromFull |-> IF exc THEN dueFull ELSE full,
                     docs |-> docs,
                     upserted |-> FALSE,
                     cause |-> IF exc THEN "exception" ELSE "none",
                     wmWrite |-> "none",
                     retryDue |-> due,
                     retryFromFull |-> dueFull,
                     rerun |-> run.outcome = "ok_indexed" /\ docs # {}
                                 /\ docs \subseteq run.docs,
                     inits |-> 0,
                     modified |-> {},
                     modifiedDue |-> IF run.outcome = "ok_indexed" /\ ~exc
                                     THEN run.modified ELSE {}]
          /\ pc' = IF o = "running" THEN "loaded" ELSE "idle"
          /\ lastQ' = IF o = "running" THEN lastQ
                      ELSE IndexResponse(proc.server, o)
    /\ UNCHANGED <<fs, now, wmFile, store, tagger, writes, proc, meta>>

\* Lines 242-258 up to the upsert: initialize the model and the collection
\* (a new SentenceTransformer and a new PersistentClient, held in locals),
\* then index_chunks.  `how` is what the provider and the store do.
IndexUpsert(how) ==
    /\ pc = "loaded"
    /\ IF how = "init_fail"
       THEN /\ run' = [run EXCEPT !.outcome = "fail_init", !.cause = how]
            /\ pc' = "idle"
            /\ lastQ' = IndexResponse(proc.server, "fail_init")
            /\ UNCHANGED <<store, wmFile>>
       ELSE LET r == index_chunks(store, split_docs(tagger, run.docs), how)
            IN IF r.ok
               THEN /\ store' = r.store
                    /\ run' = [run EXCEPT !.upserted = TRUE, !.inits = 1]
                    /\ pc' = "upserted"
                    /\ UNCHANGED <<wmFile, lastQ>>
               ELSE /\ run' = [run EXCEPT !.outcome = "fail_index",
                                          !.cause = r.cause, !.inits = 1]
                    /\ pc' = "idle"
                    /\ wmFile' = IF WritesWatermark(r.ok)
                                 THEN update_last_indexed_time(wmFile, now, "ok")
                                 ELSE wmFile
                    /\ lastQ' = IndexResponse(proc.server, "fail_index")
                    /\ UNCHANGED store
    /\ UNCHANGED <<fs, now, tagger, writes, proc, meta>>

\* Lines 253-256: the watermark write after a successful index_chunks.
IndexFinish(w) ==
    /\ pc = "upserted"
    /\ wmFile' = IF WritesWatermark(TRUE)
                 THEN update_last_indexed_time(wmFile, now, w)
                 ELSE wmFile
    /\ run' = [run EXCEPT !.outcome = "ok_indexed",
                           !.wmWrite = IF WritesWatermark(TRUE) THEN w ELSE "none"]
    /\ pc' = "idle"
    /\ lastQ' = IndexResponse(proc.server, "ok_indexed")
    /\ UNCHANGED <<fs, now, store, tagger, writes, proc, meta>>

-----------------------------------------------------------------------------
(* Queries *)

\* collection.query(query_embeddings, n_results): the n nearest records in
\* ascending distance (all of them when the collection holds fewer).  Which
\* records are nearest depends on the embeddings: any ranking can come back.
Rankings(st, n) ==
    LET m == Min(n, Cardinality(st))
    IN {r \in [1..m -> st] : \A i, j \in 1..m : i # j => r[i] # r[j]}

\* The i-th raw result as the handlers read it; its distance is its rank.
Candidate(ranked, i) ==
    [id |-> ranked[i].id, text |-> ranked[i].text, source |-> ranked[i].source,
     chunk_type |-> ranked[i].chunk_type, distance |-> i]

\* Every candidate appended as it came.
ExpandOneAsIs(st, c, getRaises) == c

\* The full entry appended without the candidate's distance (collection.get
\* returns none).
ExpandOneFullUnranked(st, c, getRaises) ==
    IF c.chunk_type = "partial_entry" /\ ~getRaises
          /\ Get(st, c.source, "full_entry") # {}
    THEN LET full == CHOOSE r \in Get(st, c.source, "full_entry") : TRUE
         IN [id |-> full.id, text |-> full.text, source |-> full.source,
             chunk_type |-> full.chunk_type, distance |-> 0]
    ELSE c

\* No fallback to the original chunk when the lookup raises.
ExpandOneNoFallback(st, c, getRaises) ==
    IF c.chunk_type = "partial_entry" /\ Get(st, c.source, "full_entry") # {}
    THEN LET full == CHOOSE r \in Get(st, c.source, "full_entry") : TRUE
         IN [id |-> full.id, text |-> full.text, source |-> full.source,
             chunk_type |-> full.chunk_type, distance |-> c.distance]
    ELSE c

\* Lines 344-386: what is appended for candidate c.
ExpandOne(st, c, getRaises) ==
    IF c.chunk_type = "partial_entry"
    THEN IF getRaises THEN c
         ELSE LET all_items == Get(st, c.source, "full_entry")
              IN IF all_items # {}
                 THEN LET full == CHOOSE r \in all_items : TRUE
                      IN [id |-> full.id, text |-> full.text,
                          source |-> full.source, chunk_type |-> full.chunk_type,
                          distance |-> c.distance]
                 ELSE c
    ELSE c

\* The loop without its duplicate-source check.
SkipsSeenNever(source, seen_sources) == FALSE

\* if source in seen_sources: continue
SkipsSeen(source, seen_sources) == source \in seen_sources

\* The loop without its breaks.
StopsNever(results_added, n_results) == FALSE

\* if results_added >= n_results: break
Stops(results_added, n_results) == results_added >= n_results

RECURSIVE ExpandLoop(_, _, _, _, _, _, _, _)
\* Lines 323-395: the loop from candidate i on.  acc.out is expanded_results;
\* acc.inspected counts the candidates whose metadata was read and acc.gets
\* the collection.get calls issued.
ExpandLoop(st, ranked, i, n_results, seen_sources, results_added, acc, getRaises) ==
    IF i > Len(ranked) THEN acc
    ELSE IF Stops(results_added, n_results) THEN acc
    ELSE LET c == Candidate(ranked, i)
         IN IF SkipsSeen(c.source, seen_sources)
            THEN ExpandLoop(st, ranked, i + 1, n_results, seen_sources,
                            results_added,
                            [acc EXCEPT !.inspected = @ + 1], getRaises)
            ELSE ExpandLoop(st, ranked, i + 1, n_results,
                            seen_sources \cup {c.source}, results_added + 1,
                            [out |-> Append(acc.out, ExpandOne(st, c, getRaises)),
                             inspected |-> acc.inspected + 1,
                             gets |-> acc.gets +
                                 IF c.chunk_type = "partial_entry" THEN 1 ELSE 0],
                            getRaises)

\* The loop run over all of `ranked`.
ExpandTrace(st, ranked, n_results, getRaises) ==
    ExpandLoop(st, ranked, 1, n_results, {}, 0,
               [out |-> <<>>, inspected |-> 0, gets |-> 0], getRaises)

expand_context_for_results(st, ranked, n_results, getRaises) ==
    IF Len(ranked) = 0 THEN <<>>
    ELSE LET expanded == ExpandTrace(st, ranked, n_results, getRaises).out
         IN IF Len(expanded) > n_results
            THEN SubSeq(expanded, 1, n_results)
            ELSE expanded

Format(r) ==
    [source |-> r.source, text |-> r.text, distance |-> r.distance,
     chunk_type |-> r.chunk_type]

\* candidates_to_fetch = n_results * 2
candidates_to_fetch(n_results) == n_results * 2

\* perform_enhanced_rag_query after the two store calls: `ranked` is what
\* collection.query returned for candidates_to_fetch(n_results).
perform_enhanced_rag_query(st, ranked, n_results, getRaises) ==
    LET expanded == expand_context_for_results(st, ranked, n_results, getRaises)
        formatted == [i \in 1..Len(expanded) |-> Format(expanded[i])]
        final == IF Len(formatted) > n_results
                 THEN SubSeq(formatted, 1, n_results)
                 ELSE formatted
    IN IF Len(final) # n_results
       THEN SubSeq(final, 1, Min(Len(final), n_results))
       ELSE final

\* Lines 626-630 of the query_journal handler: the 'FINAL CATCH' on the list
\* perform_enhanced_rag_query returned.
final_catch(results, n_results) ==
    IF Len(results) # n_results
    THEN SubSeq(results, 1, Min(Len(results), n_results))
    ELSE results

\* Which of the guarded branches one query takes: the emergency truncation
\* of expand_context_for_results (actual_count > n_results), the final
\* verification of perform_enhanced_rag_query (len(final_results) !=
\* n_results) and the handler's FINAL CATCH (len(results) != n_results).
BranchesTaken(st, ranked, n_results, getRaises) ==
    LET actual_count == Len(ExpandTrace(st, ranked, n_results, getRaises).out)
        formatted == Len(expand_context_for_results(st, ranked, n_results,
                                                    getRaises))
        final_results == Min(formatted, n_results)
        results == Len(perform_enhanced_rag_query(st, ranked, n_results,
                                                  getRaises))
    IN (IF Len(ranked) > 0 /\ actual_count > n_results
        THEN {"emergency_truncation"} ELSE {})
       \cup (IF final_results # n_results THEN {"final_verification"} ELSE {})
       \cup (IF results # n_results THEN {"final_catch"} ELSE {})

\* perform_rag_query after the store call: `ranked` is what collection.query
\* returned for n_results.
perform_rag_query(ranked) ==
    [i \in 1..Len(ranked) |->
        [source |-> Candidate(ranked, i).source,
         text |-> Candidate(ranked, i).text,
         distance |-> Candidate(ranked, i).distance]]

-----------------------------------------------------------------------------
(* The request loop: tools/call query_journal *)

\* JSON-RPC error codes of create_mcp_error; 0 stands for a result response.
PARSE_ERROR == -32700
METHOD_NOT_FOUND == -32601
INVALID_PARAMS == -32602
SERVER_ERROR == -32000
RESULT == 0

\* arguments.get("query"): absent, a non-string JSON value, "", a string of
\* blanks only, a string with text.
QueryArgs == {"missing", "nonstring", "empty", "blank", "text"}

\* arguments.get("n_results", DEFAULT_N_RESULTS): a JSON value, by its Python
\* type and (for numbers and booleans) its numeric value.
NResultsArgs ==
    {[t |-> "int", v |-> i] : i \in 0..MaxK}
    \cup {[t |-> "bool", v |-> 1], [t |-> "bool", v |-> 0],
          [t |-> "float", v |-> 1], [t |-> "str", v |-> 1],
          [t |-> "null", v |-> 0]}

\* not query
Falsy(query) == query \in {"missing", "empty"}

\* isinstance(query, str)
IsStr(query) == query \in {"empty", "blank", "text"}

\* isinstance(n_results, int): bool is a subclass of int.
IsInt(n_results) == n_results.t \in {"int", "bool"}

\* The two validation branches of the query_journal handler: which argument
\* is refused, or "none".
ArgsError(query, n_results) ==
    IF Falsy(query) \/ ~IsStr(query) THEN "query"
    ELSE IF ~IsInt(n_results) \/ n_results.v < 1 THEN "n_results"
    ELSE "none"

\* What the provider and the store do during a query.  An exception's str()
\* may be empty (MemoryError(), a bare assert).
QueryFailures == {"none", "encode_raise", "query_raise", "encode_raise_nomsg"}

\* error_msg as perform_*_rag_query returns it: None, "" or a message.
ErrorMsg(qf) ==
    CASE qf = "none" -> "None"
      [] qf = "encode_raise_nomsg" -> ""
      [] OTHER -> "message"

\* `if error_msg:`
Truthy(error_msg) == error_msg = "message"

\* The handler's answer to (results, error_msg): SERVER_ERROR when error_msg
\* is truthy; else a result.  With results = None the python_legacy handler
\* raises at len(results) and the loop's `except Exception` answers
\* SERVER_ERROR; the code/mcp handler sends json.dumps(None) as a result.
QueryCode(server, qf) ==
    IF Truthy(ErrorMsg(qf)) THEN SERVER_ERROR
    ELSE IF qf = "none" THEN RESULT
    ELSE IF server = "enhanced" THEN SERVER_ERROR
    ELSE RESULT

\* Calls made on the embedding model and on the collection's query.
Encodes(qf) == 1
StoreQueries(qf) == IF qf \in {"none", "query_raise"} THEN 1 ELSE 0

\* The guard that opens perform_rag_query and perform_enhanced_rag_query.
NotReady(p) ==
    ~p.is_initialized \/ p.embedding_model = "None"
        \/ p.chroma_collection = "None"

\* What both functions return under that guard, (None, "Resources not
\* initialized"), and the handler's answer to it; nothing is called.
NotInitialized(server, query, n_results) ==
    [server |-> server, kind |-> "query", query |-> query,
     n_results |-> n_results, k |-> n_results.v, err |-> "not_initialized",
     code |-> SERVER_ERROR, id |-> "request", encodes |-> 0, queries |-> 0,
     getRaises |-> FALSE, inspected |-> 0, gets |-> 0, cands |-> <<>>,
     res |-> <<>>]

\* perform_enhanced_rag_query as the python_legacy query_journal handler calls
\* it with accepted arguments (or as an importing caller does), and the
\* handler's answer.
QueryEnhanced(query, n_results, qf, getRaises) ==
    /\ pc = "idle"
    /\ lastQ = NoQuery
    /\ proc.server = "enhanced"
    /\ proc.status \in {"serving", "imported"}
    /\ ArgsError(query, n_results) = "none"
    /\ LET k == n_results.v
           base == [server |-> "enhanced", kind |-> "query", query |-> query,
                    n_results |-> n_results, k |-> k, err |-> qf,
                    code |-> QueryCode("enhanced", qf), id |-> "request",
                    encodes |-> Encodes(qf), queries |-> StoreQueries(qf),
                    getRaises |-> getRaises]
       IN IF NotReady(proc)
          THEN lastQ' = NotInitialized("enhanced", query, n_results)
          ELSE IF qf # "none"
          THEN lastQ' = base @@ [cands |-> <<>>, res |-> <<>>,
                                 inspected |-> 0, gets |-> 0]
          ELSE \E ranked \in Rankings(store, candidates_to_fetch(k)) :
                  lastQ' = base @@
                      [cands |-> [i \in 1..Len(ranked) |-> Candidate(ranked, i)],
                       res |-> final_catch(
                                   perform_enhanced_rag_query(store, ranked, k,
                                                              getRaises), k),
                       expanded |->
                           Len(ExpandTrace(store, ranked, k, getRaises).out),
                       branches |-> BranchesTaken(store, ranked, k, getRaises),
                       inspected |->
                           ExpandTrace(store, ranked, k, getRaises).inspected,
                       gets |-> ExpandTrace(store, ranked, k, getRaises).gets]
    /\ UNCHANGED <<fs, now, wmFile, store, tagger, pc, run, writes, proc, meta>>

\* perform_rag_query as the code/mcp query_journal handler calls it with
\* accepted arguments (or as an importing caller does), and the handler's
\* answer.
QueryPlain(query, n_results, qf) ==
    /\ pc = "idle"
    /\ lastQ = NoQuery
    /\ proc.server = "plain"
    /\ proc.status \in {"serving", "imported"}
    /\ ArgsError(query, n_results) = "none"
    /\ LET k == n_results.v
           base == [server |-> "plain", kind |-> "query", query |-> query,
                    n_results |-> n_results, k |-> k, err |-> qf,
                    code |-> QueryCode("plain", qf), id |-> "request",
                    encodes |-> Encodes(qf), queries |-> StoreQueries(qf),
                    getRaises |-> FALSE, inspected |-> 0, gets |-> 0]
       IN IF NotReady(proc)
          THEN lastQ' = NotInitialized("plain", query, n_results)
          ELSE IF qf # "none"
          THEN lastQ' = base @@ [cands |-> <<>>, res |-> <<>>]
          ELSE \E ranked \in Rankings(store, k) :
                  lastQ' = base @@
                      [cands |-> [i \in 1..Len(ranked) |-> Candidate(ranked, i)],
                       res |-> perform_rag_query(ranked)]
    /\ UNCHANGED <<fs, now, wmFile, store, tagger, pc, run, writes, proc, meta>>

\* tools/call query_journal, arguments refused: the answer is INVALID_PARAMS
\* and perform_*_rag_query is not called.
RejectQuery(query, n_results) ==
    /\ pc = "idle"
    /\ lastQ = NoQuery
    /\ proc.status = "serving"
    /\ proc.server \in {"plain", "enhanced"}
    /\ ArgsError(query, n_results) # "none"
    /\ lastQ' = [server |-> proc.server, kind |-> "query", query |-> query,
                 n_results |-> n_results, k |-> 0, err |-> "invalid_params",
                 code |-> INVALID_PARAMS, id |-> "request",
                 encodes |-> 0, queries |-> 0, getRaises |-> FALSE,
                 inspected |-> 0, gets |-> 0, cands |-> <<>>, res |-> <<>>]
    /\ UNCHANGED <<fs, now, wmFile, store, tagger, pc, run, writes, proc, meta>>

\* The response line is written; the loop goes back to reading requests.
Reply ==
    /\ lastQ # NoQuery
    /\ lastQ' = NoQuery
    /\ UNCHANGED <<fs, now, wmFile, store, tagger, pc, run, writes, proc, meta>>

-----------------------------------------------------------------------------
(* The request loop: startup and the other input lines *)

Servers == {"plain", "enhanced", "frontmatter"}

\* The module globals as the module body leaves them, in a process that is
\* at `status`.
Globals(sv, status) ==
    [server |-> sv, status |-> status, is_initialized |-> FALSE,
     embedding_model |-> "None", chroma_collection |-> "None"]

\* A journal server past a successful startup.
Serving(sv) ==
    [server |-> sv, status |-> "serving", is_initialized |-> TRUE,
     embedding_model |-> "set", chroma_collection |-> "set"]

\* How one call of initialize_resources goes: to its end, or SentenceTransformer
\* raises, or os.makedirs of the store path raises (the inner except returns
\* False), or the ChromaDB client or collection call raises.
InitOutcomes == {"ok", "model_raise", "makedirs_fail", "client_raise"}

\* is_initialized set as soon as the model is loaded.
initialize_resourcesFlagFirst(p, o) ==
    IF p.is_initialized THEN [globals |-> p, returned |-> TRUE, constructed |-> 0]
    ELSE CASE o = "ok" ->
                [globals |-> [p EXCEPT !.is_initialized = TRUE,
                                       !.embedding_model = "set",
                                       !.chroma_collection = "set"],
                 returned |-> TRUE, constructed |-> 1]
           [] o = "makedirs_fail" ->
                [globals |-> [p EXCEPT !.is_initialized = TRUE,
                                       !.embedding_model = "set"],
                 returned |-> FALSE, constructed |-> 1]
           [] OTHER ->
                [globals |-> [p EXCEPT !.is_initialized = FALSE,
                                       !.embedding_model = "None",
                                       !.chroma_collection = "None"],
                 returned |-> FALSE,
                 constructed |-> IF o = "client_raise" THEN 1 ELSE 0]

\* initialize_resources: the globals afterwards, the value returned and the
\* number of embedding models constructed.
initialize_resources(p, o) ==
    IF p.is_initialized THEN [globals |-> p, returned |-> TRUE, constructed |-> 0]
    ELSE CASE o = "ok" ->
                [globals |-> [p EXCEPT !.is_initialized = TRUE,
                                       !.embedding_model = "set",
                                       !.chroma_collection = "set"],
                 returned |-> TRUE, constructed |-> 1]
           [] o = "makedirs_fail" ->
                [globals |-> [p EXCEPT !.embedding_model = "set"],
                 returned |-> FALSE, constructed |-> 1]
           [] OTHER ->
                [globals |-> [p EXCEPT !.is_initialized = FALSE,
                                       !.embedding_model = "None",
                                       !.chroma_collection = "None"],
                 returned |-> FALSE,
                 constructed |-> IF o = "client_raise" THEN 1 ELSE 0]

\* main() before the loop: the journal servers call initialize_resources()
\* and sys.exit(1) when it returns False; the frontmatter server has nothing
\* to initialize.
Startup(o) ==
    /\ proc.status = "starting"
    /\ proc' = IF proc.server = "frontmatter"
               THEN [proc EXCEPT !.status = "serving"]
               ELSE LET r == initialize_resources(proc, o)
                    IN [r.globals EXCEPT !.status =
                           IF r.returned THEN "serving" ELSE "exited"]
    /\ UNCHANGED <<fs, now, wmFile, store, tagger, pc, run, writes, lastQ, meta>>

\* initialize_resources called by an importing caller.
CallInitialize(o) ==
    /\ pc = "idle"
    /\ lastQ = NoQuery
    /\ proc.status = "imported"
    /\ LET r == initialize_resources(proc, o)
       IN /\ proc' = r.globals
          /\ lastQ' = [server |-> proc.server, kind |-> "initialize_resources",
                       err |-> "not_query", returned |-> r.returned,
                       constructed |-> r.constructed]
    /\ UNCHANGED <<fs, now, wmFile, store, tagger, pc, run, writes, meta>>

\* Embedding models (and store clients) initialize_resources has constructed
\* in a process: one in a journal server that is past startup.
StartupInits(p) ==
    IF p.status = "serving" /\ p.server \in {"plain", "enhanced"} THEN 1 ELSE 0

\* Input lines that decode as text, other than the tools/call requests
\* modelled above.
OtherLines ==
    {"invalid_json", "not_object", "params_not_object", "unknown_method",
     "unknown_tool", "initialize", "tools_list", "resources_list",
     "templates_list", "notification"}

\* The error code (or RESULT) the loop body answers such a line with.
LineCode(line) ==
    CASE line = "invalid_json" -> PARSE_ERROR
      [] line \in {"not_object", "params_not_object"} -> SERVER_ERROR
      [] line \in {"unknown_method", "unknown_tool"} -> METHOD_NOT_FOUND
      [] OTHER -> RESULT

\* request_id when the response is built: None until request.get("id") ran.
LineId(line) ==
    IF line \in {"invalid_json", "not_object"} THEN "null" ELSE "request"

\* One iteration of the loop body for such a line.  A line that is not a
\* JSON object raises at request.get and is answered by `except Exception`;
\* a notification gets no response.
HandleLine(line) ==
    /\ pc = "idle"
    /\ lastQ = NoQuery
    /\ proc.status = "serving"
    /\ lastQ' = IF line = "notification" THEN NoQuery
                ELSE [server |-> proc.server, kind |-> line, err |-> "not_query",
                      code |-> LineCode(line), id |-> LineId(line)]
    /\ UNCHANGED <<fs, now, wmFile, store, tagger, pc, run, writes, proc, meta>>

\* `for line in sys.stdin` on a line whose bytes do not decode.  With the
\* 'strict' error handler (UTF-8 locales) the iterator raises
\* UnicodeDecodeError outside the loop body's try, and the __main__ guard
\* ends the process; with 'surrogateescape' (C locale) the line reaches
\* json.loads, which raises JSONDecodeError.
ReadUndecodable(raises) ==
    /\ pc = "idle"
    /\ lastQ = NoQuery
    /\ proc.status = "serving"
    /\ IF raises
       THEN /\ proc' = [proc EXCEPT !.status = "exited"]
            /\ UNCHANGED lastQ
       ELSE /\ lastQ' = [server |-> proc.server, kind |-> "undecodable",
                         err |-> "not_query", code |-> PARSE_ERROR,
                         id |-> "null"]
            /\ UNCHANGED proc
    /\ UNCHANGED <<fs, now, wmFile, store, tagger, pc, run, writes, meta>>

\* Arguments of query_frontmatter, by what the handler tests of them.
\* A date: absent (or falsy), a YYYY-MM-DD string, another string, a truthy
\* non-string.
DateArgs == {"absent", "date", "bad_date", "nonstring"}
FormatArgs == {"json", "csv", "table", "xml", "nonstring"}
FrontmatterArgs ==
    [fields : {"strings", "other"}, start_date : DateArgs, end_date : DateArgs,
     stats : {"bool", "other"}, format : FormatArgs]

\* Lines 366-375: the argument refused, or "none".
FrontmatterArgsError(a) ==
    IF a.fields # "strings" THEN "fields"
    ELSE IF a.start_date = "nonstring" THEN "start_date"
    ELSE IF a.end_date = "nonstring" THEN "end_date"
    ELSE IF a.stats # "bool" THEN "stats"
    ELSE IF a.format \notin {"json", "csv", "table"} THEN "format"
    ELSE "none"

\* perform_frontmatter_query: False before the walk when a date does not
\* parse; False when anything raises during the walk; else True.
perform_frontmatter_query(a, walkRaises) ==
    IF a.start_date = "bad_date" \/ a.end_date = "bad_date"
    THEN [success |-> FALSE, walks |-> 0]
    ELSE [success |-> ~walkRaises, walks |-> 1]

\* tools/call query_frontmatter.
QueryFrontmatter(a, walkRaises) ==
    /\ pc = "idle"
    /\ lastQ = NoQuery
    /\ proc.server = "frontmatter"
    /\ proc.status = "serving"
    /\ LET bad == FrontmatterArgsError(a)
           r == perform_frontmatter_query(a, walkRaises)
       IN lastQ' = [server |-> "frontmatter", kind |-> "frontmatter",
                    args |-> a,
                    err |-> IF bad # "none" THEN "invalid_params"
                            ELSE IF r.success THEN "not_query" ELSE "failed",
                    code |-> IF bad # "none" THEN INVALID_PARAMS
                             ELSE IF r.success THEN RESULT ELSE SERVER_ERROR,
                    id |-> "request",
                    walks |-> IF bad # "none" THEN 0 ELSE r.walks]
    /\ UNCHANGED <<fs, now, wmFile, store, tagger, pc, run, writes, proc, meta>>

-----------------------------------------------------------------------------
(* query_frontmatter: the files a date range selects *)

\* What extract_frontmatter_from_file and frontmatter_data['date'] give for a
\* file: no frontmatter (None), frontmatter without `date`, a YAML date or
\* datetime on day d, a 'YYYY-MM-DD' string for day d, a string strptime
\* refuses, or a value that is neither (an integer, null).
DateFields ==
    {[k |-> "nofm", d |-> 0], [k |-> "nodate", d |-> 0],
     [k |-> "badstr", d |-> 0], [k |-> "other", d |-> 0]}
    \cup {[k |-> "date", d |-> d] : d \in 1..MaxDay}
    \cup {[k |-> "str", d |-> d] : d \in 1..MaxDay}

\* parsed_start_date / parsed_end_date: 0 stands for None.
RangeBounds == 0..MaxDay

\* The order in which os.walk yields the files.
WalkOrder == <<"a.md", "b.md", "n.txt">>

\* Lines 57-66: the file reaches the range filter (its file_date is then
\* f.date.d, or the unconverted value when k = "other").
ReachesFilter(f) == f.present /\ f.date.k \in {"date", "str", "other"}

\* Lines 69-72 on a file_date that is a date.
InRange(d, start_date, end_date) ==
    /\ ~(start_date # 0 /\ d < start_date)
    /\ ~(end_date # 0 /\ d > end_date)

\* A comparison with a date, the sort among dates, or .isoformat() raises
\* for a file_date that is neither a string nor a date: with a bound given at
\* lines 69/71, else at line 80 or at line 90.
WalkRaises(dir) ==
    \E i \in 1..Len(WalkOrder) :
        /\ IsMarkdown(WalkOrder[i])
        /\ ReachesFilter(dir[WalkOrder[i]])
        /\ dir[WalkOrder[i]].date.k = "other"

RECURSIVE Collect(_, _, _, _)
\* Lines 52-78: the files list, in walk order from file i on.
Collect(dir, i, start_date, end_date) ==
    IF i > Len(WalkOrder) THEN <<>>
    ELSE LET f == WalkOrder[i]
             rest == Collect(dir, i + 1, start_date, end_date)
         IN IF IsMarkdown(f) /\ ReachesFilter(dir[f])
                 /\ InRange(dir[f].date.d, start_date, end_date)
            THEN <<[file |-> f, date |-> dir[f].date.d]>> \o rest
            ELSE rest

RECURSIVE Sorted(_)
\* sorted(files, key = date): stable, ascending.
Sorted(files) ==
    IF Len(files) = 0 THEN <<>>
    ELSE LET m == CHOOSE i \in 1..Len(files) :
                     /\ \A j \in 1..Len(files) : files[i].date <= files[j].date
                     /\ \A j \in 1..(i - 1) : files[j].date # files[i].date
         IN <<files[m]>> \o
            Sorted([j \in 1..(Len(files) - 1) |->
                      IF j < m THEN files[j] ELSE files[j + 1]])

\* find_journal_files_for_frontmatter when nothing raises.
find_journal_files_for_frontmatter(dir, start_date, end_date) ==
    Sorted(Collect(dir, 1, start_date, end_date))

\* tools/call query_frontmatter with accepted arguments whose dates parsed:
\* lines 190-192 of perform_frontmatter_query, its except, and the handler's
\* answer.
FrontmatterWalk(start_date, end_date) ==
    /\ pc = "idle"
    /\ lastQ = NoQuery
    /\ proc.server = "frontmatter"
    /\ proc.status = "serving"
    /\ lastQ' = [server |-> "frontmatter", kind |-> "frontmatter_walk",
                 start_date |-> start_date, end_date |-> end_date,
                 err |-> IF WalkRaises(fs) THEN "failed" ELSE "not_query",
                 code |-> IF WalkRaises(fs) THEN SERVER_ERROR ELSE RESULT,
                 id |-> "request",
                 data |-> IF WalkRaises(fs) THEN <<>>
                          ELSE find_journal_files_for_frontmatter(
                                   fs, start_date, end_date)]
    /\ UNCHANGED <<fs, now, wmFile, store, tagger, pc, run, writes, proc, meta>>

-----------------------------------------------------------------------------
(* The environment *)

\* An editor writes (or creates) a journal file.
Touch(f) ==
    /\ writes < MaxWrites
    /\ writes' = writes + 1
    /\ \E ns \in FileStates(f, now) :
          /\ ns # fs[f]
          /\ fs' = [fs EXCEPT ![f] = ns]
    /\ run' = [run EXCEPT !.untouched = @ \ {f},
                          !.modified = IF pc = "idle" THEN @ \ {f}
                                       ELSE IF f \in {d.file : d \in run.docs}
                                       THEN @ \cup {f} ELSE @]
    /\ UNCHANGED <<lastQ, now, wmFile, store, tagger, pc, proc, meta>>

Tick ==
    /\ now < MaxTime
    /\ now' = now + 1
    /\ UNCHANGED <<lastQ, fs, wmFile, store, tagger, pc, run, writes, proc, meta>>

-----------------------------------------------------------------------------

Init ==
    /\ fs = [f \in Files |->
               IF f \in OtherFiles
               THEN [present |-> TRUE, mtime |-> 1, len |-> 400, ok |-> TRUE,
                     fm |-> NoFm]
               ELSE Absent]
    /\ now = 1
    /\ wmFile = WmMissing
    /\ store = {}
    /\ tagger = "src"
    /\ pc = "idle"
    /\ run = NoRun
    /\ writes = 0
    /\ lastQ = NoQuery
    /\ proc = Serving("plain")
    /\ meta = NoMeta

Next ==
    \/ \E full \in BOOLEAN, exc \in BOOLEAN : IndexLoad(full, exc)
    \/ \E how \in {"ok", "init_fail", "encode_raise", "upsert_raise"} :
          IndexUpsert(how)
    \/ \E w \in WriteOutcomes : IndexFinish(w)
    \/ \E f \in MdFiles : Touch(f)
    \/ Tick
    \/ Reply

Spec == Init /\ [][Next]_vars

-----------------------------------------------------------------------------
(* A server process started on a persisted collection *)

\* Journal directories as an editor leaves them at time t.
DirsAt(t) ==
    {d \in [Files -> UNION {FileStates(f, t) : f \in Files} \cup {Absent}] :
        /\ \A f \in MdFiles : d[f] \in FileStates(f, t) \cup {Absent}
        /\ \A f \in OtherFiles : d[f] = Absent}

\* The collection after a full index run over directory d.
AfterFullRun(st, tg, d) ==
    LET r == index_chunks(st, split_docs(tg, LoadedDocs(d, SelectedAll(d))), "ok")
    IN r.store

\* The collection two successive full runs leave, the journal having been
\* edited in between; the process starts on it with no run of its own yet.
InitSearch ==
    /\ tagger \in {"src", "tagging"}
    /\ \E d1 \in DirsAt(1), d2 \in DirsAt(2) :
          /\ fs = d2
          /\ store = AfterFullRun(AfterFullRun({}, tagger, d1), tagger, d2)
    /\ now = 2
    /\ wmFile = WmTime(2)
    /\ pc = "idle"
    /\ run = NoRun
    /\ writes = 0
    /\ lastQ = NoQuery
    /\ proc \in {Serving(sv) : sv \in {"plain", "enhanced"}}
    /\ meta = NoMeta

NextSearch ==
    \/ \E q \in QueryArgs, n \in NResultsArgs, qf \in QueryFailures,
          g \in BOOLEAN : QueryEnhanced(q, n, qf, g)
    \/ \E q \in QueryArgs, n \in NResultsArgs, qf \in QueryFailures :
          QueryPlain(q, n, qf)
    \/ Reply

SpecSearch == InitSearch /\ [][NextSearch]_vars

-----------------------------------------------------------------------------
(* A server process from its start, on a journal indexed before *)

\* Journals holding a.md only.
ServeDirs == {d \in DirsAt(1) : ~d["b.md"].present}

InitServe ==
    /\ tagger = "src"
    /\ \E d \in ServeDirs :
          /\ fs = d
          /\ store = AfterFullRun({}, tagger, d)
    /\ now = 1
    /\ wmFile = IF store = {} THEN WmMissing ELSE WmTime(1)
    /\ pc = "idle"
    /\ run = NoRun
    /\ writes = 0
    /\ lastQ = NoQuery
    /\ proc \in {Globals(sv, "starting") : sv \in Servers}
    /\ meta = NoMeta

NextServe ==
    \/ \E o \in InitOutcomes : Startup(o)
    \/ \E q \in QueryArgs, n \in NResultsArgs, qf \in QueryFailures,
          g \in BOOLEAN : QueryEnhanced(q, n, qf, g)
    \/ \E q \in QueryArgs, n \in NResultsArgs, qf \in QueryFailures :
          QueryPlain(q, n, qf)
    \/ \E q \in QueryArgs, n \in NResultsArgs : RejectQuery(q, n)
    \/ \E a \in FrontmatterArgs, w \in BOOLEAN : QueryFrontmatter(a, w)
    \/ \E line \in OtherLines : HandleLine(line)
    \/ \E raises \in BOOLEAN : ReadUndecodable(raises)
    \/ \E full \in BOOLEAN, exc \in BOOLEAN : IndexLoad(full, exc)
    \/ \E how \in {"ok", "init_fail", "encode_raise", "upsert_raise"} :
          IndexUpsert(how)
    \/ \E w \in WriteOutcomes : IndexFinish(w)
    \/ Reply

SpecServe == InitServe /\ [][NextServe]_vars

-----------------------------------------------------------------------------
(* The journal servers' functions called by a caller that imported the module *)

InitDirect ==
    /\ tagger = "src"
    /\ \E d \in ServeDirs :
          /\ fs = d
          /\ store = AfterFullRun({}, tagger, d)
    /\ now = 1
    /\ wmFile = IF store = {} THEN WmMissing ELSE WmTime(1)
    /\ pc = "idle"
    /\ run = NoRun
    /\ writes = 0
    /\ lastQ = NoQuery
    /\ proc \in {Globals(sv, "imported") : sv \in {"plain", "enhanced"}}
    /\ meta = NoMeta

NextDirect ==
    \/ \E o \in InitOutcomes : CallInitialize(o)
    \/ \E q \in QueryArgs, n \in NResultsArgs, qf \in QueryFailures,
          g \in BOOLEAN : QueryEnhanced(q, n, qf, g)
    \/ \E q \in QueryArgs, n \in NResultsArgs, qf \in QueryFailures :
          QueryPlain(q, n, qf)
    \/ Reply

SpecDirect == InitDirect /\ [][NextDirect]_vars

-----------------------------------------------------------------------------
(* The frontmatter server on journals whose files carry any `date` *)

InitFrontmatter ==
    /\ fs \in [Files -> {[present |-> TRUE, mtime |-> 1, len |-> 400,
                          ok |-> TRUE, fm |-> NoFm, date |-> df] :
                             df \in DateFields}]
    /\ fs["n.txt"].date = [k |-> "date", d |-> 1]
    /\ now = 1
    /\ wmFile = WmMissing
    /\ store = {}
    /\ tagger = "src"
    /\ pc = "idle"
    /\ run = NoRun
    /\ writes = 0
    /\ lastQ = NoQuery
    /\ proc = Globals("frontmatter", "serving")
    /\ meta = NoMeta

NextFrontmatter ==
    \/ \E s \in RangeBounds, e \in RangeBounds : FrontmatterWalk(s, e)
    \/ Reply

SpecFrontmatter == InitFrontmatter /\ [][NextFrontmatter]_vars

-----------------------------------------------------------------------------
(* index_chunks' metadata processing on its own *)

InitMeta ==
    /\ fs = [f \in Files |-> Absent]
    /\ now = 1
    /\ wmFile = WmMissing
    /\ store = {}
    /\ tagger = "src"
    /\ pc = "idle"
    /\ run = NoRun
    /\ writes = 0
    /\ lastQ = NoQuery
    /\ proc = Serving("plain")
    /\ meta \in {[stage |-> "chunk", md |-> m] : m \in [MetaKeys -> MetaValues]}

NextMeta == ProcessMetadata

SpecMeta == InitMeta /\ [][NextMeta]_vars

-----------------------------------------------------------------------------
(* Properties of the query handlers, checked under SpecSearch *)

Sources(seq) == {seq[i].source : i \in 1..Len(seq)}

EnhancedAnswered == lastQ.server = "enhanced" /\ lastQ.err = "none"

C2_CountIsMinOfKAndStoreSources ==
    EnhancedAnswered =>
        Len(lastQ.res) = Min(lastQ.k, Cardinality({r.source : r \in store}))

\* C3 (as claimed): no two results of one query_journal response share a
\* source, on either server.
C3_NoTwoResultsShareSource ==
    (lastQ.server \in {"enhanced", "plain"} /\ lastQ.err = "none") =>
        \A i, j \in 1..Len(lastQ.res) :
            i # j => lastQ.res[i].source # lastQ.res[j].source

-----------------------------------------------------------------------------
(* Properties of the indexer, checked under Spec *)

LoadStep == \E full \in BOOLEAN, exc \in BOOLEAN : IndexLoad(full, exc)

\* The step in which update_journal_index returns.
ReturnStep == Returned(run'.outcome) /\ (LoadStep \/ run.outcome = "running")

Skipped(r) == r.selected \ {d.file : d \in r.docs}

\* C4: the watermark file changes only in the step that follows a completed
\* batch upsert of the same run, and a run that returned success = false has
\* left it as it was when the run started.
C4_WatermarkOnlyAfterUpsert ==
    /\ [][wmFile' # wmFile =>
            pc = "upserted" /\ run.upserted /\ run'.outcome = "ok_indexed"]_vars
    /\ [](Failure(run.outcome) => wmFile = run.wmStart)

\* C4 witness: an upsert raised in a run that started from a written
\* watermark, later than which the clock now stands.
C4_Witness ==
    /\ run.outcome = "fail_index"
    /\ run.cause = "upsert_raise"
    /\ run.wmStart.st = "time"
    /\ wmFile = run.wmStart
    /\ now > wmFile.t

\* C5 (as claimed): the next incremental run that selects files selects every
\* file the failed run before it (full or incremental) had selected and that
\* was not written since.
C5_FailedRunRetried ==
    (run.outcome # "none" /\ ~run.full /\ run.cause # "exception") =>
        run.retryDue \subseteq run.selected

\* C5 (amended): the same, after a failed incremental run.
C5_FailedIncrementalRunRetried ==
    (run.outcome # "none" /\ ~run.full /\ run.cause # "exception"
        /\ ~run.retryFromFull) =>
        run.retryDue \subseteq run.selected

\* C5 witness: an incremental run selected again the file of a failed
\* incremental run, under a watermark an earlier run had written.
C5_Witness ==
    /\ run.outcome # "none" /\ ~run.full /\ run.cause # "exception"
    /\ ~run.retryFromFull
    /\ run.retryDue # {}
    /\ run.retryDue \subseteq run.selected
    /\ run.wmStart.st = "time"

\* C6: an incremental run attempts to load exactly the markdown files whose
\* mtime is strictly greater than the persisted watermark (0 when the file is
\* missing or unreadable), a full run every markdown file; the documents are
\* those of the selected files that parse.
C6_Selection ==
    [][(LoadStep /\ run'.cause # "exception") =>
          LET wm == IF wmFile.st = "time" THEN wmFile.t ELSE 0
              md == {f \in Files : fs[f].present /\ f \in MdFiles}
          IN /\ run'.selected =
                   IF run'.full THEN md ELSE {f \in md : fs[f].mtime > wm}
             /\ {d.file : d \in run'.docs} = {f \in run'.selected : fs[f].ok}]_vars

\* C6 witness: an incremental run under a written watermark left out a file
\* modified exactly at the watermark and selected a later one.
C6_Witness ==
    /\ run.outcome # "none" /\ ~run.full /\ run.cause # "exception"
    /\ run.wmStart.st = "time"
    /\ \E f \in MdFiles : /\ fs[f].present
                         /\ fs[f].mtime = run.wmStart.t
                         /\ f \notin run.selected
    /\ \E g \in run.untouched : fs[g].mtime > run.wmStart.t

C8_NoChunksNoUpsert ==
    /\ []((run.outcome # "none" /\ run.cause # "exception"
             /\ split_docs(tagger, run.docs) = {}) =>
            /\ run.outcome \in {"ok_nofiles", "ok_nochunks"}
            /\ ~run.upserted
            /\ pc = "idle")
    /\ [][store' # store => split_docs(tagger, run.docs) # {}]_vars

\* C8 witness: a populated store, and a run that selected a file with an
\* empty body only.
C8_Witness ==
    /\ run.outcome = "ok_nochunks"
    /\ run.selected # {}
    /\ run.docs # {}
    /\ store # {}

\* C9: in a run that skipped a malformed file, with the provider and the
\* store working: the run returns success; every other selected file that
\* parses (and was not rewritten meanwhile) has all its chunks in the store
\* once the upsert is done; and the upsert is done whenever such a file has
\* a chunk.
C9_MalformedFileSkipped ==
    (run.outcome # "none" /\ run.cause = "none" /\ Skipped(run) # {}) =>
        /\ Returned(run.outcome) => Success(run.outcome)
        /\ run.upserted =>
              \A f \in run.untouched :
                  fs[f].ok => DocChunks(tagger, Post(fs, f)) \subseteq store
        /\ (Returned(run.outcome)
               /\ \E f \in run.untouched : fs[f].ok /\ NumChunks(fs[f].len) > 0)
              => run.outcome = "ok_indexed"

\* C9 witness: a run skipped one file and indexed the chunks of another.
C9_Witness ==
    /\ run.outcome = "ok_indexed" /\ run.cause = "none"
    /\ Skipped(run) # {}
    /\ \E f \in run.untouched :
          /\ fs[f].ok
          /\ NumChunks(fs[f].len) > 1
          /\ DocChunks(tagger, Post(fs, f)) \subseteq store

\* C10: the store never holds two records with the same (source,
\* chunk_index), and the upsert of a run that re-indexes documents the run
\* before it indexed, unchanged, leaves the store exactly as it was.
C10_OneRecordPerChunkAndIdempotent ==
    /\ [](\A r1, r2 \in store :
             (r1.source = r2.source /\ r1.chunk_index = r2.chunk_index)
                 => r1 = r2)
    /\ [][(pc = "loaded" /\ pc' = "upserted" /\ run.rerun) => store' = store]_vars

\* C10 witness: a second run has upserted the four chunks of a document the
\* first run had indexed.
C10_Witness ==
    /\ run.rerun /\ run.upserted /\ run.outcome = "ok_indexed"
    /\ \E d \in run.docs : NumChunks(d.len) = 4 /\ DocChunks(tagger, d) \subseteq store

-----------------------------------------------------------------------------
(* Properties of chunk tagging and context expansion *)

\* C11 (as claimed): once a run has upserted, every stored chunk of each of
\* its documents carries chunk_type "full_entry" when the document gave one
\* chunk and "partial_entry" when it gave more.  Checked under Spec.
C11_StoredChunksTagged ==
    run.upserted =>
        \A d \in run.docs : \A r \in store :
            (r.source = d.source /\ r.text.file = d.file
                /\ r.text.born = d.born) =>
                r.chunk_type = IF NumChunks(d.len) = 1 THEN "full_entry"
                               ELSE "partial_entry"

\* Positions of the candidates whose source no earlier candidate has.
FirstOcc(cands) ==
    {i \in 1..Len(cands) :
        \A j \in 1..(i - 1) : cands[j].source # cands[i].source}

\* Position of the candidate behind the j-th result.
EmittedIdx(cands, j) ==
    CHOOSE i \in FirstOcc(cands) :
        Cardinality({m \in FirstOcc(cands) : m <= i}) = j

AsIs(c) ==
    [source |-> c.source, text |-> c.text, distance |-> c.distance,
     chunk_type |-> c.chunk_type]

\* C12 (as claimed): the result behind a partial_entry candidate carries the
\* text and metadata of the store's full_entry record of the same source,
\* with the candidate's distance, whenever the store holds such a record;
\* every other result is its candidate unchanged.  Checked under SpecSearch.
C12_ExpandsWheneverStoreHoldsFull ==
    EnhancedAnswered =>
        \A j \in 1..Len(lastQ.res) :
            LET c == lastQ.cands[EmittedIdx(lastQ.cands, j)]
                full == {r \in store : r.source = c.source
                                        /\ r.chunk_type = "full_entry"}
            IN IF c.chunk_type = "partial_entry" /\ full # {}
               THEN \E r \in full :
                       lastQ.res[j] = [source |-> r.source, text |-> r.text,
                                       distance |-> c.distance,
                                       chunk_type |-> r.chunk_type]
               ELSE lastQ.res[j] = AsIs(c)

\* C12 (amended): the same when the lookup of the full_entry record returns;
\* when the lookup raises, the result is the candidate unchanged.
C12_ExpandsWhenLookupFindsFull ==
    EnhancedAnswered =>
        \A j \in 1..Len(lastQ.res) :
            LET c == lastQ.cands[EmittedIdx(lastQ.cands, j)]
                full == {r \in store : r.source = c.source
                                        /\ r.chunk_type = "full_entry"}
            IN IF c.chunk_type = "partial_entry" /\ full # {}
                  /\ ~lastQ.getRaises
               THEN \E r \in full :
                       lastQ.res[j] = [source |-> r.source, text |-> r.text,
                                       distance |-> c.distance,
                                       chunk_type |-> r.chunk_type]
               ELSE lastQ.res[j] = AsIs(c)

\* C12 witness: the second result stands for a partial_entry candidate and
\* carries the full_entry record's text with the candidate's distance.
C12_Witness ==
    /\ EnhancedAnswered
    /\ ~lastQ.getRaises
    /\ Len(lastQ.res) = 2
    /\ LET c == lastQ.cands[EmittedIdx(lastQ.cands, 2)]
       IN /\ c.chunk_type = "partial_entry"
          /\ lastQ.res[2].chunk_type = "full_entry"
          /\ lastQ.res[2].text # c.text
          /\ lastQ.res[2].distance = c.distance
          /\ c.distance > 1

\* C13 (as claimed): a query with k = 1 whose nearest candidate is a chunk
\* of a journal document that was split into several chunks returns one
\* result, whose text is the whole body of that document.  Checked under
\* SpecSearch.
C13_TopPartialReturnsWholeBody ==
    (EnhancedAnswered /\ lastQ.k = 1 /\ Len(lastQ.cands) >= 1) =>
        LET c == lastQ.cands[1]
            f == c.text.file
        IN (fs[f].present /\ fs[f].ok /\ c.text.born = fs[f].mtime
               /\ c.source = Post(fs, f).source
               /\ NumChunks(fs[f].len) > 1) =>
              /\ Len(lastQ.res) = 1
              /\ lastQ.res[1].text.file = f
              /\ lastQ.res[1].text.lo = 0
              /\ lastQ.res[1].text.hi = fs[f].len

\* C20: the loop of expand_context_for_results reads no candidate after the
\* one that gave the k-th result, and issues collection.get only for the
\* partial_entry candidates among those it emitted.  Checked under SpecSearch.
C20_StopsAtK ==
    EnhancedAnswered =>
        LET F == FirstOcc(lastQ.cands)
            last == IF Cardinality(F) >= lastQ.k
                    THEN EmittedIdx(lastQ.cands, lastQ.k)
                    ELSE Len(lastQ.cands)
        IN /\ lastQ.inspected = last
           /\ lastQ.gets =
                 Cardinality({i \in F : i <= last
                                /\ lastQ.cands[i].chunk_type = "partial_entry"})

\* C20 witness: k = 1; the nearest candidate gave the result, and the next
\* one, a partial_entry chunk of another source, was neither read nor looked
\* up.
C20_Witness ==
    /\ EnhancedAnswered
    /\ lastQ.k = 1
    /\ Len(lastQ.res) = 1
    /\ Len(lastQ.cands) = 2
    /\ lastQ.cands[2].source # lastQ.cands[1].source
    /\ lastQ.cands[2].chunk_type = "partial_entry"
    /\ lastQ.inspected = 1
    /\ lastQ.gets = 0

-----------------------------------------------------------------------------
(* Properties of the request loop, checked under SpecServe *)

QueryResponse ==
    lastQ.server \in {"plain", "enhanced"} /\ lastQ.kind = "query"

\* C14 (as claimed): a query_journal request whose query is empty or blank
\* is answered with an error or with no results, and neither the embedding
\* model nor the collection is called for it.
C14_BlankQueryRejected ==
    (QueryResponse /\ lastQ.query \in {"empty", "blank"}) =>
        /\ lastQ.code # RESULT \/ lastQ.res = <<>>
        /\ lastQ.encodes = 0
        /\ lastQ.queries = 0
        /\ lastQ.gets = 0

\* C15 (as claimed): a request whose query is missing or no string, whose
\* n_results is no positive integer, or whose format is none of json, csv
\* and table is answered with INVALID_PARAMS, and no provider, store or
\* file-system call is made for it.
C15_MalformedInputRejected ==
    /\ (QueryResponse
          /\ (lastQ.query \in {"missing", "nonstring"}
                \/ lastQ.n_results.t # "int" \/ lastQ.n_results.v < 1)) =>
          /\ lastQ.code = INVALID_PARAMS
          /\ lastQ.encodes = 0 /\ lastQ.queries = 0 /\ lastQ.gets = 0
    /\ (lastQ.server = "frontmatter" /\ lastQ.kind = "frontmatter"
          /\ lastQ.args.format \notin {"json", "csv", "table"}) =>
          /\ lastQ.code = INVALID_PARAMS
          /\ lastQ.walks = 0

\* C16 (as claimed): a query during which the embedding model or the
\* collection raised is answered with a SERVER_ERROR response that carries
\* the request id, and with no results.
C16_QueryFailureIsServerError ==
    (QueryResponse
        /\ lastQ.err \in {"encode_raise", "query_raise", "encode_raise_nomsg"}) =>
        /\ lastQ.code = SERVER_ERROR
        /\ lastQ.id = "request"
        /\ lastQ.res = <<>>

\* C17 (as claimed): the process exits only from startup, before it has read
\* a line; no input line ends a serving process.
C17_OnlyStartupExits ==
    [][proc'.status = "exited" => proc.status = "starting"]_vars

-----------------------------------------------------------------------------
(* Property of the metadata processing, checked under SpecMeta *)

\* C18: every metadata value handed to upsert is a str, int, float or bool;
\* a value of one of these types is handed over as it was, any other value
\* (date, list, mapping, null) as the string str() gives for it.
C18_MetadataScalars ==
    meta.stage = "upsert" =>
        /\ DOMAIN meta.sent = DOMAIN meta.md
        /\ \A key \in DOMAIN meta.md :
              /\ meta.sent[key].t \in {"str", "int", "float", "bool"}
              /\ meta.md[key].t \in {"str", "int", "float", "bool"} =>
                    meta.sent[key] = meta.md[key]
              /\ meta.md[key].t \notin {"str", "int", "float", "bool"} =>
                    meta.sent[key] = [t |-> "str", v |-> meta.md[key].v]

\* C18 witness: a mapping with a date and an integer was processed.
C18_Witness ==
    /\ meta.stage = "upsert"
    /\ meta.md["date"].t = "date"
    /\ meta.md["mood"].t = "int"
    /\ meta.sent["date"] = [t |-> "str", v |-> "2024-01-05"]
    /\ meta.sent["mood"] = meta.md["mood"]

-----------------------------------------------------------------------------
(* Property of resource initialization, checked under Spec *)

\* C19 (as claimed): within one process the embedding model (and the store
\* client) is constructed at most once: the construction at startup is the
\* only one, whatever index runs follow.
C19_InitializedAtMostOnce ==
    StartupInits(proc) + run.inits <= 1

-----------------------------------------------------------------------------
(* Further properties of the query handlers, checked under SpecSearch *)

\* C21: the results of one enhanced search keep the store's ranking: the j-th
\* result has the source and the distance of the j-th first-ranked candidate
\* of a source, so distances never decrease along the result list, also when
\* a partial chunk was replaced by its full entry.
C21_ResultsKeepRanking ==
    EnhancedAnswered =>
        /\ Len(lastQ.res) <= Cardinality(FirstOcc(lastQ.cands))
        /\ \A j \in 1..Len(lastQ.res) :
              LET c == lastQ.cands[EmittedIdx(lastQ.cands, j)]
              IN /\ lastQ.res[j].source = c.source
                 /\ lastQ.res[j].distance = c.distance
        /\ \A i, j \in 1..Len(lastQ.res) :
              i < j => lastQ.res[i].distance <= lastQ.res[j].distance

\* C21 witness: two results; the first is a full entry that replaced the
\* top-ranked partial candidate, the second comes from the candidate ranked
\* third, behind a second chunk of the first source.
C21_Witness ==
    /\ EnhancedAnswered
    /\ Len(lastQ.res) = 2
    /\ Len(lastQ.cands) >= 3
    /\ lastQ.cands[1].chunk_type = "partial_entry"
    /\ lastQ.cands[2].source = lastQ.cands[1].source
    /\ lastQ.res[1].chunk_type = "full_entry"
    /\ lastQ.res[1].distance = 1
    /\ lastQ.res[2].distance = 3

C28_LookupFailureFallsBack ==
    (EnhancedAnswered /\ lastQ.getRaises) =>
        /\ lastQ.code = RESULT
        /\ Len(lastQ.res) = Min(lastQ.k, Cardinality(FirstOcc(lastQ.cands)))
        /\ \A j \in 1..Len(lastQ.res) :
              lastQ.res[j] = AsIs(lastQ.cands[EmittedIdx(lastQ.cands, j)])

\* C28 witness: the lookup raised for the top-ranked partial candidate, whose
\* full entry the store holds; the partial chunk is the first result and the
\* candidate ranked third, of another source, is the second.
C28_Witness ==
    /\ EnhancedAnswered
    /\ lastQ.getRaises
    /\ Len(lastQ.res) = 2
    /\ Len(lastQ.cands) >= 3
    /\ lastQ.cands[1].chunk_type = "partial_entry"
    /\ Get(store, lastQ.cands[1].source, "full_entry") # {}
    /\ lastQ.cands[2].source = lastQ.cands[1].source
    /\ lastQ.res[1].chunk_type = "partial_entry"
    /\ lastQ.res[1].distance = 1
    /\ lastQ.res[2].distance = 3
    /\ lastQ.gets = 1

-----------------------------------------------------------------------------
(* Property of the request loops, checked under SpecServe *)

\* The loop is about to read a line.
LineRead == pc = "idle" /\ lastQ = NoQuery /\ proc.status = "serving"

\* A response as create_mcp_response builds it: the request's id (null when
\* no request was decoded) and either a result or one of the errors.
WellFormed(resp) ==
    /\ resp # NoQuery
    /\ resp.code \in {RESULT, PARSE_ERROR, METHOD_NOT_FOUND, INVALID_PARAMS,
                      SERVER_ERROR}
    /\ resp.id = IF resp.kind \in {"invalid_json", "undecodable", "not_object"}
                 THEN "null" ELSE "request"

\* C23 (as claimed): requests are handled one at a time; every input line
\* other than a notifications/initialized message (which changes nothing)
\* yields exactly one response, with the id of its request and either a
\* result or an error, and that response is written before the next line is
\* read.
C23_OneResponsePerLine ==
    [][/\ (LineRead /\ vars' # vars) => (pc' = "loaded" \/ WellFormed(lastQ'))
       /\ (pc # "idle" /\ pc' = "idle") => WellFormed(lastQ')
       /\ lastQ # NoQuery => lastQ' \in {lastQ, NoQuery}]_vars

-----------------------------------------------------------------------------
(* Further properties of update_journal_index, checked under Spec *)

\* C24 (as claimed): after a successful index run, the records the store
\* holds for a source the run indexed are exactly the chunks of the version
\* the run indexed; no record of an earlier, longer version remains.
C24_StoreHoldsOnlyIndexedVersion ==
    run.outcome = "ok_indexed" =>
        \A d \in run.docs :
            {r \in store : r.source = d.source} =
                UNION {DocChunks(tagger, e) :
                          e \in {x \in run.docs : x.source = d.source}}

\* C25 (as claimed): no modification is lost to the watermark: a file the run
\* loaded and that was written again before the run wrote the watermark is
\* selected by the next incremental run that selects files (nothing having
\* written it in between).
C25_ModifiedDuringRunSelectedLater ==
    (run.outcome # "none" /\ ~run.full /\ run.cause # "exception") =>
        run.modifiedDue \subseteq run.selected

ChunkIds(doc) == {c.id : c \in DocChunks(tagger, doc)}

\* C26 (as claimed): two different markdown files never produce the same
\* chunk id, and an upsert never replaces a record made from another file.
C26_DistinctFilesDistinctChunkIds ==
    [][/\ \A d, e \in run'.docs :
             d.file # e.file => ChunkIds(d) \cap ChunkIds(e) = {}
       /\ \A r \in store, q \in store' :
             q.id = r.id => q.text.file = r.text.file]_vars

\* C27 (as claimed): the watermark get_last_indexed_time reads never
\* decreases while the clock does not, and the watermark file changes only
\* in a run that upserted at least one chunk.
C27_WatermarkNeverDecreases ==
    [][/\ get_last_indexed_time(wmFile') >= get_last_indexed_time(wmFile)
       /\ wmFile' # wmFile => (run'.upserted /\ split_docs(tagger, run'.docs) # {})]_vars

-----------------------------------------------------------------------------
(* Property of the module globals, checked under SpecDirect *)

\* C29: is_initialized implies that the embedding model and the collection
\* are set; a call of initialize_resources that returns False leaves
\* is_initialized false; a call made when is_initialized is true returns True
\* and constructs nothing; a query attempted while is_initialized is false
\* is answered 'Resources not initialized' with no call of the provider or
\* of the store.
C29_InitializedMeansReady ==
    /\ [](proc.is_initialized =>
            proc.embedding_model = "set" /\ proc.chroma_collection = "set")
    /\ [][(lastQ' # NoQuery /\ lastQ'.kind = "initialize_resources") =>
            /\ ~lastQ'.returned => ~proc'.is_initialized
            /\ proc.is_initialized =>
                  lastQ'.returned /\ lastQ'.constructed = 0 /\ proc' = proc]_vars
    /\ [][(lastQ' # NoQuery /\ lastQ'.kind = "query" /\ ~proc.is_initialized) =>
            /\ lastQ'.err = "not_initialized"
            /\ lastQ'.code = SERVER_ERROR
            /\ lastQ'.encodes = 0 /\ lastQ'.queries = 0
            /\ lastQ'.res = <<>>]_vars

\* C29 witness: a query answered 'Resources not initialized' after an
\* initialize_resources that loaded the model and then failed.
C29_Witness ==
    /\ lastQ # NoQuery
    /\ lastQ.kind = "query"
    /\ lastQ.err = "not_initialized"
    /\ ~proc.is_initialized
    /\ proc.embedding_model = "set"

-----------------------------------------------------------------------------
(* Property of query_frontmatter, checked under SpecFrontmatter *)

\* Files whose frontmatter has a date: a YAML date or a parseable string.
Dated(dir) == {f \in WalkMd(dir) : dir[f].date.k \in {"date", "str"}}

\* C30 (as claimed): query_frontmatter answers with one record for every
\* journal file whose frontmatter date lies in [start_date, end_date] (each
\* bound optional) and for no other file, by ascending date; files with no
\* frontmatter, no date or a date that does not parse are left out and do
\* not fail the query.
C30_DateRangeSelectsExactly ==
    (lastQ # NoQuery /\ lastQ.kind = "frontmatter_walk") =>
        /\ lastQ.code = RESULT
        /\ {lastQ.data[i].file : i \in 1..Len(lastQ.data)} =
              {f \in Dated(fs) :
                  /\ lastQ.start_date # 0 => fs[f].date.d >= lastQ.start_date
                  /\ lastQ.end_date # 0 => fs[f].date.d <= lastQ.end_date}
        /\ \A i, j \in 1..Len(lastQ.data) :
              /\ i < j => lastQ.data[i].date <= lastQ.data[j].date
              /\ i # j => lastQ.data[i].file # lastQ.data[j].file

====
